---- MODULE Spec2Model ----
(***************************************************************************)
(* The camera actor of aber_cor: CameraWrapper (a multiprocessing.Process) *)
(* in its two implementations,                                             *)
(*   uscope : src/uscope_ctrl/cameras_ctrl.py            (PCO / Simulated) *)
(*   wfs    : src/wfs/wfs_reconstruction/camera/cameras_ctrl.py (IDS / Sim)*)
(* together with the caller that feeds the Commands queue and drains the   *)
(* Images, Diagnostics and Faults queues.                                  *)
(*                                                                         *)
(* Granularity: one action per iteration of the dispatch loop of run()     *)
(* (the dequeue and the whole handler of the dequeued message), one action *)
(* per iteration of the loop of live_imaging(), one action per put of the  *)
(* start-up sequence of run(), one action per caller operation.            *)
(* Queue operations follow multiprocessing.Queue: put_nowait raises Full   *)
(* on a full queue, full() and empty() report the bounded semaphore.       *)
(***************************************************************************)
EXTENDS Integers, Sequences, FiniteSets, TLC

\* ------------------------------------------------------------------ bounds
\* Number of commands the caller enqueues in one run.
MaxCmds == 3
\* Queue(maxsize=...) of the four channels, as the caller creates them.
CommandsCap == 2
DiagnosticsCap == 3
FaultsCap == 1
ImagesCap == 2
\* Widths and heights range over 1..MaxDim.
MaxDim == 2

\* ------------------------------------------------------- program constants
\* generate_noise_picture: "if (height >= 2) and (width >= 2)".
MinSide == 2
\* Exposure times are counted in half milliseconds, so that a float payload
\* below 1 ms has a value; OneMs is the literal 1 of "exposure_t_ms = 1".
OneMs == 2
\* Sensor side of the PCO camera: "self.max_width = 2048".
PcoSide == 2048
\* An attribute declared ("max_width: int") but never assigned.
Unset == -1
\* "np.random.randint(0, high=255, ...)": samples are below this value.
RandHigh == 255
\* Largest value of the declared pixel type, pixel_type = 'uint8'.
PixelMax == 255

Impls == {"uscope", "wfs"}
PhysType(i) == IF i = "uscope" THEN "PCO" ELSE "IDS"

\* ------------------------------------------------------------- messages
\* A value on the Commands queue: a str, a (command, parameters) tuple or an
\* Exception.  t and p carry the payload of a tuple.
StrMsg(name) == [k |-> "str", s |-> name, t |-> "none", p |-> << >>]
TupleMsg(name, type, params) == [k |-> "tuple", s |-> name, t |-> type, p |-> params]
ExcMsg(name) == [k |-> "exc", s |-> name, t |-> "none", p |-> << >>]
NoMsg == [k |-> "none", s |-> "", t |-> "none", p |-> << >>]

Dims == 1..MaxDim
\* Sides of the commands: one below the minimum of the noise picture, and the
\* largest one.
Sides == {MinSide - 1, MaxDim}
CropMsgs == {TupleMsg("Crop Image", "int", <<0, 0, h, w>>) : h \in Sides, w \in Sides}
ResizeMsgs == {TupleMsg("Change simulate picture sizes to:", "int", <<w, h>>) : w \in Sides, h \in Sides}
\* Payloads of "Set exposure time": ints -1, 0, 1, 2 ms and floats -1.0, 0.0,
\* 0.5, 1.0, 2.0 ms, in half milliseconds.
IntPayloads == {0 - OneMs, 0, OneMs, 2 * OneMs}
FloatPayloads == IntPayloads \cup {1}
ExposureMsgs ==
    {TupleMsg("Set exposure time", "int", <<v>>) : v \in IntPayloads}
    \cup {TupleMsg("Set exposure time", "float", <<v>>) : v \in FloatPayloads}

LifeCmds ==
    {StrMsg("Close the camera"), StrMsg("Start Live Stream"),
     StrMsg("Stop Live Stream"), StrMsg("Snap single image"), ExcMsg("Injected")}
SizeCmds ==
    CropMsgs \cup ResizeMsgs
    \cup {StrMsg("Restore Full Frame"), StrMsg("Snap single image")}

\* A value on the Images queue.
Frame(h, w) == [kind |-> "Frame", h |-> h, w |-> w]
Text(name) == [kind |-> name, h |-> 0, w |-> 0]
\* An image of generate_noise_picture(): shape (h, w), samples in lo..hi.
NoiseFrame(h, w) == [kind |-> "Frame", h |-> h, w |-> w, lo |-> 0, hi |-> RandHigh - 1]

\* ------------------------------------------------------------------ state
VARIABLES
    impl,                \* which of the two cameras_ctrl.py is running
    env,                 \* the machine: driver library, cameras, open result
    camera_type, initialized, live_stream_flag, exposure_time_ms,
    max_width, max_height, image_width, image_height,
    camera_reference,    \* "None" or "Handle"
    replace_img_camera,  \* uscope: "None" or "Loaded"
    status,              \* wfs live_imaging: local 'status' of is_CaptureVideo
    messages_queue,      \* Commands
    exceptions_queue,    \* Faults
    images_queue,        \* Images
    messages2caller,     \* Diagnostics
    images_closed,       \* images_queue.close() was called
    pc,                  \* position of the worker
    script,              \* the puts of the start-up sequence still to do
    sent,                \* commands enqueued by the caller so far
    closeCalls,          \* history: calls of CameraWrapper.close()
    closedBy,            \* history: what ended the dispatch loop
    last,                \* history: what the latest worker step did
    track,               \* history: a "Stop Live Stream" followed in Commands
    origin,              \* history: sizes recorded by __init__, resize seen,
                         \*          the previous and the current command,
                         \*          only Close commands sent so far
    camera_handle,       \* GUI: "Process" or "None"
    join_result,         \* GUI: how close_current_camera() went so far
    messages_printer,    \* the MessagesPrinter thread of the GUI
    exceptions_checker,  \* the ExceptionsChecker thread of the GUI
    wait_loop            \* GUI: the loop that waits for the launch confirmation

actorVars ==
    <<camera_type, initialized, live_stream_flag, exposure_time_ms, max_width,
      max_height, image_width, image_height, camera_reference,
      replace_img_camera, status, images_closed, pc, script>>
queueVars == <<messages_queue, exceptions_queue, images_queue, messages2caller>>
historyVars == <<closeCalls, closedBy, last, track, origin>>
guiVars ==
    <<camera_handle, join_result, messages_printer, exceptions_checker, wait_loop>>
vars == <<impl, env, actorVars, queueVars, sent, historyVars, guiVars>>

\* What a worker step did; ev is reset at the start of every worker step.
\* wasClosed: the loop of run() had been ended (initialized = False after a
\* close) before the step; afterClosed: device calls of the step made after that.
\* chFull: a put met a full Diagnostics or Faults queue; thrown: the last
\* exception raised in the step other than queue.Full; asked: the step called
\* generate_noise_picture(); inner: the "except Exception" inside the loop of
\* live_imaging() caught the exception; cmdPut: the worker put a value on
\* messages_queue.
NoEvents ==
    [op |-> "none", deq |-> NoMsg, pushed |-> 0, dropped |-> 0, diags |-> 0,
     faults |-> 0, closes |-> 0, adapter |-> 0, imgFull |-> FALSE,
     raised |-> "none", wasClosed |-> FALSE, afterClosed |-> 0,
     chFull |-> FALSE, thrown |-> "none", asked |-> FALSE, inner |-> FALSE,
     cmdPut |-> FALSE]

NoTrack == [on |-> FALSE, taken |-> FALSE, ahead |-> 0, aheadAtPut |-> 0, frames |-> 0]

\* The worker's state as one record: the handlers below are functions from
\* record to record; exc is the exception in flight ("none" if none).
Cur ==
    [camera_type |-> camera_type, initialized |-> initialized,
     live_stream_flag |-> live_stream_flag,
     exposure_time_ms |-> exposure_time_ms,
     max_width |-> max_width, max_height |-> max_height,
     image_width |-> image_width, image_height |-> image_height,
     camera_reference |-> camera_reference,
     replace_img_camera |-> replace_img_camera, status |-> status,
     messages_queue |-> messages_queue, exceptions_queue |-> exceptions_queue,
     images_queue |-> images_queue, messages2caller |-> messages2caller,
     images_closed |-> images_closed, pc |-> pc, script |-> script,
     closeCalls |-> closeCalls, closedBy |-> closedBy, track |-> track,
     origin |-> origin, exc |-> "none",
     ev |-> [NoEvents EXCEPT !.wasClosed = closedBy # "none"]]

Commit(s) ==
    /\ camera_type' = s.camera_type
    /\ initialized' = s.initialized
    /\ live_stream_flag' = s.live_stream_flag
    /\ exposure_time_ms' = s.exposure_time_ms
    /\ max_width' = s.max_width
    /\ max_height' = s.max_height
    /\ image_width' = s.image_width
    /\ image_height' = s.image_height
    /\ camera_reference' = s.camera_reference
    /\ replace_img_camera' = s.replace_img_camera
    /\ status' = s.status
    /\ messages_queue' = s.messages_queue
    /\ exceptions_queue' = s.exceptions_queue
    /\ images_queue' = s.images_queue
    /\ messages2caller' = s.messages2caller
    /\ images_closed' = s.images_closed
    /\ pc' = s.pc
    /\ script' = s.script
    /\ closeCalls' = s.closeCalls
    /\ closedBy' = s.closedBy
    /\ track' = IF s.track.on /\ s.track.taken /\ s.pc # "streaming"
                THEN [s.track EXCEPT !.on = FALSE]
                ELSE s.track
    /\ origin' = s.origin
    /\ last' = s.ev
    /\ UNCHANGED <<impl, env, sent, guiVars>>

\* ------------------------------------------------- queue operations on s
\* Queue.put_nowait on messages2caller: Full when the queue is full.
PutDiag(s, m) ==
    IF s.exc # "none" THEN s
    ELSE IF Len(s.messages2caller) < DiagnosticsCap
    THEN [s EXCEPT !.messages2caller = Append(@, m), !.ev.diags = @ + 1]
    ELSE [s EXCEPT !.exc = "Full", !.ev.chFull = TRUE]

\* Queue.put_nowait on exceptions_queue.
PutFault(s, e) ==
    IF s.exc # "none" THEN s
    ELSE IF Len(s.exceptions_queue) < FaultsCap
    THEN [s EXCEPT !.exceptions_queue = Append(@, e), !.ev.faults = @ + 1]
    ELSE [s EXCEPT !.exc = "Full", !.ev.chFull = TRUE]

\* Queue.put_nowait on images_queue; a closed queue raises ValueError.
PutImage(s, item) ==
    IF s.exc # "none" THEN s
    ELSE IF s.images_closed THEN [s EXCEPT !.exc = "ValueError"]
    ELSE IF Len(s.images_queue) < ImagesCap
    THEN [s EXCEPT !.images_queue = Append(@, item), !.ev.pushed = @ + 1]
    ELSE [s EXCEPT !.exc = "Full", !.ev.imgFull = TRUE]

\* Queue.get_nowait on messages_queue (the caller of Deq has checked empty()).
Deq(s) ==
    [s EXCEPT !.messages_queue = Tail(@),
              !.ev.deq = Head(s.messages_queue),
              !.track = IF ~@.on \/ @.taken THEN @
                        ELSE IF @.ahead = 0 THEN [@ EXCEPT !.taken = TRUE]
                        ELSE [@ EXCEPT !.ahead = @ - 1]]

\* A call of the device library through camera_reference.
AdapterCall(s) ==
    IF s.exc # "none" THEN s
    ELSE [s EXCEPT !.ev.adapter = @ + 1,
                   !.ev.afterClosed = @ + (IF s.closedBy # "none" THEN 1 ELSE 0)]

Raise(s, e) == IF s.exc # "none" THEN s ELSE [s EXCEPT !.exc = e, !.ev.thrown = e]

IsPhys(s) == s.camera_type = PhysType(impl)
HasHandle(s) == s.camera_reference # "None"

\* "while self.initialized:" of run().
LoopPc(s) == IF s.initialized THEN "ready" ELSE "exiting"

\* An exception that leaves run() ends the Process.
Escaped(s) ==
    IF s.exc = "none" THEN s
    ELSE [s EXCEPT !.pc = "crashed", !.ev.raised = s.exc, !.exc = "none"]

\* ------------------------------------------------------ __init__ (Init)
Envs(i, type) ==
    IF type # PhysType(i)
    THEN {[lib |-> FALSE, connected |-> FALSE, open |-> "ok"]}
    ELSE {[lib |-> FALSE, connected |-> FALSE, open |-> "ok"]}
         \cup (IF i = "uscope"
               THEN {[lib |-> TRUE, connected |-> TRUE, open |-> o] :
                       o \in {"ok", "ValueError", "error"}}
               ELSE {[lib |-> TRUE, connected |-> FALSE, open |-> "ok"]}
                    \cup {[lib |-> TRUE, connected |-> TRUE, open |-> o] :
                            o \in {"ok", "ValueError", "error", "badstatus"}})

\* The Simulated branch of __init__.
InitSimulated(w, h) ==
    LET okSize == h >= MinSide /\ w >= MinSide IN
    /\ initialized = okSize
    /\ max_width = w /\ max_height = h /\ image_width = w /\ image_height = h
    /\ messages2caller = IF okSize THEN <<"The Simulated camera initialized">> ELSE << >>
    /\ messages_queue =
         IF okSize THEN << >> ELSE <<StrMsg("Specified height or width are less than 2")>>
    /\ exceptions_queue = IF okSize THEN << >> ELSE <<"DimensionError">>

\* The PCO branch of uscope's __init__.
InitPCO ==
    /\ initialized = env.lib
    /\ max_width = (IF env.lib THEN PcoSide ELSE Unset)
    /\ max_height = (IF env.lib THEN PcoSide ELSE Unset)
    /\ image_width = Unset /\ image_height = Unset
    /\ messages2caller = << >> /\ messages_queue = << >> /\ exceptions_queue = << >>

\* The IDS branch of wfs's __init__.
InitIDS ==
    /\ initialized = (env.lib /\ env.connected)
    /\ max_width = Unset /\ max_height = Unset
    /\ image_width = Unset /\ image_height = Unset
    /\ messages2caller =
         <<IF ~env.lib THEN "During the import of pyueye library the exception raised"
           ELSE IF env.connected THEN "IDS controlling library and camera are both available"
           ELSE "The IDS controlling library imported but there is no connected cameras">>
    /\ messages_queue = << >> /\ exceptions_queue = << >>

\* A last branch of __init__ that leaves the flag of the loop set.
InitOtherKeepsFlag ==
    /\ initialized = TRUE
    /\ max_width = Unset /\ max_height = Unset
    /\ image_width = Unset /\ image_height = Unset
    /\ messages2caller = <<"The specified type of the camera hasn't been implemented">>
    /\ messages_queue = << >>
    /\ exceptions_queue = <<"NotImplemented">>

\* The last branch of __init__: the camera type is not recognized.
InitOther ==
    /\ initialized = FALSE
    /\ max_width = Unset /\ max_height = Unset
    /\ image_width = Unset /\ image_height = Unset
    /\ messages2caller = <<"The specified type of the camera hasn't been implemented">>
    /\ messages_queue = << >>
    /\ exceptions_queue = <<"NotImplemented">>

\* MessagesPrinter.__init__ and start(): the thread is about to enter its loop.
\* held: the value taken by get_nowait() and not handled yet; act, msg: what
\* the latest pass of the loop did, and with which value.
PrinterStarted == [running |-> TRUE, held |-> "none", act |-> "none", msg |-> "none"]
\* ExceptionsChecker.__init__ and start(); quits: calls of camera_ctrl_exit().
CheckerStarted == [running |-> TRUE, quits |-> 0, act |-> "none", msg |-> "none"]

\* The state after CameraWrapper(...) has been constructed on empty queues,
\* the process handle stored and the two threads of the GUI started.
InitWith(types, sizes) ==
    /\ impl \in Impls
    /\ camera_type \in types \cap {"Simulated", PhysType(impl), "Other"}
    /\ env \in Envs(impl, camera_type)
    /\ live_stream_flag = FALSE
    /\ exposure_time_ms = 2 * OneMs
    /\ camera_reference = "None"
    /\ replace_img_camera = "None"
    /\ status = "none"
    /\ images_queue = << >>
    /\ images_closed = FALSE
    /\ IF camera_type = "Simulated"
       THEN \E wh \in sizes : InitSimulated(wh[1], wh[2])
       ELSE IF camera_type = "PCO" THEN InitPCO
       ELSE IF camera_type = "IDS" THEN InitIDS
       ELSE InitOther
    /\ pc = "created"
    /\ script = << >>
    /\ sent = 0
    /\ closeCalls = 0
    /\ closedBy = "none"
    /\ last = NoEvents
    /\ track = NoTrack
    /\ origin = [w |-> max_width, h |-> max_height, resized |-> FALSE,
                 prev |-> "none", cur |-> "none", onlyClose |-> TRUE,
                 faulted |-> exceptions_queue # << >>]
    /\ camera_handle = "Process"
    /\ join_result = "none"
    /\ messages_printer = PrinterStarted
    /\ exceptions_checker = CheckerStarted
    /\ wait_loop = "waiting"

AllTypes == {"Simulated", "PCO", "IDS", "Other"}
AllSizes == Dims \X Dims
SquareSizes == {<<d, d>> : d \in Dims}
Init == InitWith(AllTypes, AllSizes)
\* Every camera type; the Simulated camera with width = height.
InitSquare == InitWith(AllTypes, SquareSizes)
\* The Simulated camera with every width and height.
InitSimulatedOnly == InitWith({"Simulated"}, AllSizes)

\* -------------------------------------------------- start-up part of run()
ToDiag(m) == [q |-> "diag", m |-> m]
ToImages(m) == [q |-> "img", m |-> m]
Launched == ToDiag("camera Process has been launched")

\* uscope run(), lines 90-116: the puts of the PCO start-up, in order.
ScriptPCO(open) ==
    IF open = "ok"
    THEN <<ToDiag("The PCO camera initialized"),
           ToDiag("Default exposure time is set ms"),
           ToDiag("The camera status report"),
           ToDiag("The camera acquire mode"),
           ToDiag("The camera trigger mode"),
           ToDiag("Camera max width / height"),
           ToImages("The PCO camera initialized")>>
    ELSE <<ToDiag("CAMERA NOT INITIALIZED! THE HANDLE TO IT - 'NONE'"),
           ToImages("The Simulated PCO camera initialized")>>

\* wfs run(), lines 88-131: the puts of the IDS start-up, in order.
ScriptIDS(open) ==
    IF open = "ok"
    THEN <<ToDiag("The IDS camera initialized"),
           ToImages("The IDS camera initialized"),
           ToDiag("The default image size")>>
    ELSE IF open = "badstatus" THEN << >>
    ELSE <<ToDiag("CAMERA NOT INITIALIZED! THE HANDLE TO IT - 'NONE'"),
           ToImages("The Simulated IDS camera initialized")>>

\* A run() that enters its loop without the puts of the start-up.
StartRunSkipsLaunch(s) ==
    LET handle == IF env.open \in {"ok", "badstatus"} THEN "Handle" ELSE "None"
        s0 == [s EXCEPT !.ev.op = "Start"]
    IN IF impl = "wfs" /\ ~s.initialized THEN [s0 EXCEPT !.pc = "exiting"]
       ELSE IF s.camera_type = PhysType(impl)
       THEN [s0 EXCEPT !.pc = LoopPc(s), !.camera_reference = handle, !.ev.adapter = 1]
       ELSE [s0 EXCEPT !.pc = LoopPc(s)]

\* Process.start(): run() begins, opens the device and plans its puts.
StartRun(s) ==
    LET handle == IF env.open \in {"ok", "badstatus"} THEN "Handle" ELSE "None"
        s0 == [s EXCEPT !.ev.op = "Start"]
    IN
    IF impl = "uscope"
    THEN IF s.camera_type # "PCO"
         THEN [s0 EXCEPT !.pc = "launching", !.script = <<Launched>>]
         ELSE IF ~env.lib THEN Escaped(Raise(s0, "ImportError"))
         ELSE IF env.open = "error" THEN Escaped(Raise(s0, "AdapterError"))
         ELSE [s0 EXCEPT !.pc = "launching",
                         !.camera_reference = handle,
                         !.ev.adapter = 1,
                         !.script = ScriptPCO(env.open) \o <<Launched>>]
    ELSE IF ~s.initialized THEN [s0 EXCEPT !.pc = "exiting"]
         ELSE IF s.camera_type # "IDS"
         THEN [s0 EXCEPT !.pc = "launching", !.script = <<Launched>>]
         ELSE IF env.open = "error" THEN Escaped(Raise(s0, "AdapterError"))
         ELSE [s0 EXCEPT !.pc = "launching",
                         !.camera_reference = handle,
                         !.ev.adapter = 1,
                         !.max_width = IF env.open = "ok" THEN MaxDim ELSE @,
                         !.max_height = IF env.open = "ok" THEN MaxDim ELSE @,
                         !.script = ScriptIDS(env.open) \o <<Launched>>]

\* One put of the start-up sequence; Full is not the ValueError run() catches.
LaunchPut(s) ==
    LET item == Head(s.script)
        s0 == [s EXCEPT !.ev.op = "LaunchStep", !.script = Tail(@)]
        s1 == IF item.q = "diag" THEN PutDiag(s0, item.m)
              ELSE PutImage(s0, Text(item.m))
    IN IF s1.exc # "none" THEN Escaped(s1)
       ELSE IF s1.script = << >> THEN [s1 EXCEPT !.pc = LoopPc(s1)]
       ELSE s1

\* The put after the dispatch loop: "run() of Process finished for ...".
FinishRun(s) ==
    LET s1 == PutDiag([s EXCEPT !.ev.op = "Finish"], "run() of Process finished")
    IN IF s1.exc # "none" THEN Escaped(s1) ELSE [s1 EXCEPT !.pc = "done"]

Start == pc = "created" /\ Commit(StartRun(Cur))
LaunchStep == pc = "launching" /\ Commit(LaunchPut(Cur))
Finish == pc = "exiting" /\ Commit(FinishRun(Cur))

\* The names of the Close command in run() of implementation i.
CloseNamesOf(i) ==
    {"Close the camera", "Stop", "Stop Program", "Close Camera"}
    \cup (IF i = "wfs" THEN {"Close camera"} ELSE {})
CloseNames == CloseNamesOf(impl)

\* ------------------------------------------------------------- the caller
IsStopLive(m) == m.k = "str" /\ m.s = "Stop Live Stream"

\* The caller puts a command, as the GUI does after "if not full()".
CallerSend(m) ==
    /\ sent < MaxCmds
    /\ Len(messages_queue) < CommandsCap
    /\ messages_queue' = Append(messages_queue, m)
    /\ sent' = sent + 1
    /\ track' = IF IsStopLive(m) /\ ~track.on
                THEN [on |-> TRUE, taken |-> FALSE, ahead |-> Len(messages_queue),
                      aheadAtPut |-> Len(messages_queue), frames |-> 0]
                ELSE track
    /\ origin' = [origin EXCEPT !.onlyClose = @ /\ m.k = "str" /\ m.s \in CloseNames]
    /\ last' = NoEvents
    /\ UNCHANGED <<impl, env, actorVars, exceptions_queue, images_queue,
                   messages2caller, closeCalls, closedBy, guiVars>>

\* A reader takes the oldest value of Images (images_queue.get_nowait()).
CallerGetImage ==
    /\ images_queue # << >>
    /\ images_queue' = Tail(images_queue)
    /\ last' = NoEvents
    /\ UNCHANGED <<impl, env, actorVars, messages_queue, exceptions_queue,
                   messages2caller, sent, closeCalls, closedBy, track, origin,
                   guiVars>>

\* The caller or the messages printer takes the oldest Diagnostics line.
CallerGetMessage ==
    /\ messages2caller # << >>
    /\ messages2caller' = Tail(messages2caller)
    /\ last' = NoEvents
    /\ UNCHANGED <<impl, env, actorVars, messages_queue, exceptions_queue,
                   images_queue, sent, closeCalls, closedBy, track, origin,
                   guiVars>>

\* The exceptions checker takes the oldest Fault.
CallerGetFault ==
    /\ exceptions_queue # << >>
    /\ exceptions_queue' = Tail(exceptions_queue)
    /\ last' = NoEvents
    /\ UNCHANGED <<impl, env, actorVars, messages_queue, images_queue,
                   messages2caller, sent, closeCalls, closedBy, track, origin,
                   guiVars>>

Readers == CallerGetImage \/ CallerGetMessage \/ CallerGetFault

\* ------------------------------------------------ methods of CameraWrapper
\* close(): the device's close call, a sleep, one Diagnostics line.
CloseCamera(s) ==
    IF s.exc # "none" THEN s
    ELSE LET s1 == [s EXCEPT !.closeCalls = @ + 1, !.ev.closes = @ + 1]
             s2 == IF IsPhys(s1) /\ HasHandle(s1) THEN AdapterCall(s1) ELSE s1
         IN PutDiag(s2, "camera close() performed")

\* generate_noise_picture() with the two sides of the shape exchanged.
GenerateNoisePictureTransposed(s) ==
    IF s.image_height >= MinSide /\ s.image_width >= MinSide
    THEN [ok |-> TRUE, img |-> NoiseFrame(s.image_width, s.image_height)]
    ELSE [ok |-> FALSE, img |-> NoiseFrame(1, 1)]

\* generate_noise_picture() that returns its first (1, 1) array instead of
\* raising.
GenerateNoisePictureNoRaise(s) ==
    IF s.image_height >= MinSide /\ s.image_width >= MinSide
    THEN [ok |-> TRUE, img |-> NoiseFrame(s.image_height, s.image_width)]
    ELSE [ok |-> TRUE, img |-> NoiseFrame(1, 1)]

\* generate_noise_picture(): an image of image_height x image_width, or the
\* Exception "Specified height or width are less than 2".
GenerateNoisePicture(s) ==
    IF s.image_height >= MinSide /\ s.image_width >= MinSide
    THEN [ok |-> TRUE, img |-> NoiseFrame(s.image_height, s.image_width)]
    ELSE [ok |-> FALSE, img |-> NoiseFrame(1, 1)]

\* The image read from beads.png that replaces the PCO camera's image.
Placeholder == Frame(Unset, Unset)

\* Outcomes of a device or file call the handler at hand can meet.
SnapOutcomes ==
    IF camera_type = PhysType(impl) /\ camera_reference # "None"
    THEN IF impl = "uscope" THEN {"ok", "raise"} ELSE {"ok", "raise", "empty"}
    ELSE IF camera_type = "PCO" /\ replace_img_camera = "None"
    THEN {"ok", "raise"}
    ELSE {"ok"}

StartOutcomes ==
    IF camera_type = PhysType(impl) /\ camera_reference # "None"
    THEN IF impl = "uscope" THEN {"ok", "raise"} ELSE {"ok", "bad"}
    ELSE {"ok"}

TickOutcomes ==
    IF camera_type = PhysType(impl) /\ camera_reference # "None"
    THEN IF impl = "uscope" THEN {"ok", "raise"}
         ELSE IF status = "ok" THEN {"ok", "raise", "empty"} ELSE {"ok"}
    ELSE {"ok"}

\* Whether the 5-minute counter of uscope's run() has run out at this iteration.
DueChoices == IF impl = "uscope" /\ camera_type = "PCO" THEN BOOLEAN ELSE {FALSE}

\* snap_single_image() that answers with the replacing string whatever the
\* camera.
SnapSingleImageAsText(s, acq) ==
    IF s.exc # "none" THEN s
    ELSE PutImage(s, Text("String replacer of an image"))

\* snap_single_image().
SnapSingleImage(s, acq) ==
    IF s.exc # "none" THEN s
    ELSE IF IsPhys(s) /\ HasHandle(s)
    THEN LET s1 == AdapterCall(s) IN
         IF acq = "raise" THEN Raise(s1, "AdapterError")
         ELSE IF s.max_width = Unset THEN Raise(s1, "AttributeError")
         ELSE IF acq = "empty" THEN s1
         ELSE PutImage(s1, Frame(s.max_height, s.max_width))
    ELSE IF IsPhys(s)
    THEN IF impl = "wfs" THEN PutImage(s, Text("String replacer of an image"))
         ELSE IF s.replace_img_camera # "None" THEN PutImage(s, Placeholder)
         ELSE IF acq = "raise" THEN Raise(s, "FileNotFoundError")
         ELSE PutImage([s EXCEPT !.replace_img_camera = "Loaded"], Placeholder)
    ELSE IF s.camera_type = "Simulated"
    THEN LET g == GenerateNoisePicture(s)
             t == [s EXCEPT !.ev.asked = TRUE] IN
         IF g.ok THEN PutImage(t, g.img) ELSE Raise(t, "DimensionError")
    ELSE s

\* set_exposure_time() with "< 0" in place of "<= 0".
SetExposureTimeZeroKept(s, type, value) ==
    IF s.exc # "none" THEN s
    ELSE IF type # (IF impl = "uscope" THEN "int" ELSE "float") THEN s
    ELSE LET v == IF value < 0 THEN OneMs ELSE value
             s1 == [s EXCEPT !.exposure_time_ms = v]
         IN IF IsPhys(s1) /\ HasHandle(s1)
            THEN PutDiag(AdapterCall(s1), "The set exposure time ms")
            ELSE s1

\* set_exposure_time(): uscope takes an int, wfs a float.
SetExposureTime(s, type, value) ==
    IF s.exc # "none" THEN s
    ELSE IF type # (IF impl = "uscope" THEN "int" ELSE "float") THEN s
    ELSE LET v == IF value <= 0 THEN OneMs ELSE value
             s1 == [s EXCEPT !.exposure_time_ms = v]
             s2 == IF impl = "wfs" /\ s.camera_type = "Simulated"
                   THEN PutDiag(s1, "The set exposure time ms")
                   ELSE s1
         IN IF IsPhys(s2) /\ HasHandle(s2)
            THEN IF impl = "wfs" /\ s.max_width = Unset
                 THEN Raise(s2, "AttributeError")
                 ELSE PutDiag(AdapterCall(s2), "The set exposure time ms")
            ELSE s2

\* crop_image() that raises sizes below 2 to 2 before storing them.
CropImageClamped(s, y, x, width, height) ==
    IF s.exc # "none" THEN s
    ELSE IF s.camera_type = "Simulated"
    THEN [s EXCEPT !.image_width = IF width < MinSide THEN MinSide ELSE width,
                   !.image_height = IF height < MinSide THEN MinSide ELSE height]
    ELSE s

\* crop_image(yLeftUpper, xLeftUpper, width, height).
CropImage(s, y, x, width, height) ==
    IF s.exc # "none" THEN s
    ELSE LET s1 == IF s.camera_type = "Simulated"
                   THEN [s EXCEPT !.image_width = width, !.image_height = height]
                   ELSE s
         IN IF impl = "uscope" /\ IsPhys(s1) /\ HasHandle(s1)
            THEN AdapterCall(s1) ELSE s1

\* restore_full_frame() without the line that restores the height.
RestoreWidthOnly(s) ==
    IF s.exc # "none" THEN s
    ELSE IF s.camera_type = "Simulated" THEN [s EXCEPT !.image_width = s.max_width]
    ELSE s

\* restore_full_frame().
RestoreFullFrame(s) ==
    IF s.exc # "none" THEN s
    ELSE LET s1 == IF s.camera_type = "Simulated"
                   THEN [s EXCEPT !.image_width = s.max_width,
                                  !.image_height = s.max_height]
                   ELSE s
         IN IF impl = "uscope" /\ IsPhys(s1) /\ HasHandle(s1)
            THEN AdapterCall(s1) ELSE s1

\* update_simulated_sizes(width, height).
UpdateSimulatedSizes(s, width, height) ==
    IF s.exc # "none" THEN s
    ELSE [s EXCEPT !.image_width = width, !.max_width = width,
                   !.image_height = height, !.max_height = height,
                   !.origin.resized = TRUE]

\* return_camera_status(): four lines for an opened PCO camera.
ReturnCameraStatus(s) ==
    IF impl = "uscope" /\ IsPhys(s) /\ HasHandle(s)
    THEN PutDiag(AdapterCall(PutDiag(AdapterCall(PutDiag(AdapterCall(
             PutDiag(AdapterCall(s), "Camera status")), "acquire mode")),
             "frame rate")), "acquire mode ex")
    ELSE s

\* ------------------------------------------------ the dispatch loop of run()
\* uscope run(), lines 189-196: the status line every 5 minutes.
PeriodicStatus(s, due) ==
    IF s.exc = "none" /\ due /\ impl = "uscope" /\ s.camera_type = "PCO" /\ HasHandle(s)
    THEN PutDiag(AdapterCall(s), "Camera status after 5min")
    ELSE s

\* The rest of an iteration after its handler: nothing in run() catches what
\* is in flight here but "except Empty".
EndIteration(s, due) ==
    LET s1 == PeriodicStatus(s, due)
    IN IF s1.exc # "none" THEN Escaped(s1) ELSE [s1 EXCEPT !.pc = LoopPc(s1)]

\* The spellings of the close commands sent here, and the lower-case form of
\* each (str.lower()).
CloseSpellings ==
    {"Close the camera", "CLOSE THE CAMERA", "Stop", "stop", "Stop Program",
     "stop program", "Close Camera", "Close camera"}
Lower(str) ==
    CASE str \in {"Close the camera", "CLOSE THE CAMERA"} -> "close the camera"
      [] str \in {"Stop", "stop"} -> "stop"
      [] str \in {"Stop Program", "stop program"} -> "stop program"
      [] str \in {"Close Camera", "Close camera"} -> "close camera"
      [] OTHER -> str
FoldedCloseNames == {"close the camera", "stop", "stop program", "close camera"}

\* The test of the close branch as a comparison that ignores letter case.
IsCloseFolded(m) == m.k = "str" /\ Lower(m.s) \in FoldedCloseNames

IsClose(m) == m.k = "str" /\ m.s \in CloseNames
StatusName == IF impl = "uscope" THEN "Get the PCO camera status" ELSE "Get the IDS camera status"
KnownStrings ==
    CloseNames \cup {"Start Live Stream", "Snap single image", StatusName, "Restore Full Frame"}
KnownCommands == {"Crop Image", "Set exposure time", "Change simulate picture sizes to:"}

\* "Close the camera" and its synonyms: try / except / finally ... break.
OnClose(s) ==
    LET t1 == PutDiag(s, "Received by the Camera")
        t2 == CloseCamera(t1)
        t3 == IF t2.exc = "none"
              THEN [t2 EXCEPT !.camera_reference = "None", !.images_closed = TRUE]
              ELSE t2
        t4 == IF t3.exc = "none" THEN t3
              ELSE PutFault(PutDiag([t3 EXCEPT !.exc = "none"],
                                    "Raised exception during closing the camera"),
                            t3.exc)
    IN [t4 EXCEPT !.exc = "none", !.initialized = FALSE, !.pc = "exiting",
                  !.closedBy = "Close"]

\* The except branch of the snap as a handler that only logs the exception.
OnSnapFailedLogged(s) == PutDiag([s EXCEPT !.exc = "none"], "Error string")

\* "except Exception as e" of the snap branch: close, stop the loop, report.
OnSnapFailed(s) ==
    LET e == s.exc
        u == CloseCamera([s EXCEPT !.exc = "none"])
        v == IF u.exc = "none"
             THEN [u EXCEPT !.initialized = FALSE, !.closedBy = "Snap"]
             ELSE u
    IN PutFault(v, e)

\* "Snap single image".
OnSnap(s, acq) ==
    LET t1 == SnapSingleImage(s, acq)
        t2 == IF impl = "wfs" /\ Len(t1.messages2caller) >= DiagnosticsCap THEN t1
              ELSE PutDiag(t1, "Single image snap performed")
    IN IF t2.exc = "none" THEN t2 ELSE OnSnapFailed(t2)

\* "except Exception as error" around live_imaging() in run().
OnLiveFailed(s) ==
    LET e == s.exc
        u == PutDiag(PutDiag([s EXCEPT !.exc = "none"], "Error string"),
                     "Error string, split")
    IN PutFault(u, e)

\* An Exception taken from Commands: "self.close()" and nothing else.
OnException(s) == CloseCamera(s)

\* "Restore Full Frame": the line is put first, then the frame restored.
OnRestore(s) ==
    LET t1 == IF s.max_width = Unset THEN Raise(s, "AttributeError")
              ELSE PutDiag(s, "Full frame restored")
    IN RestoreFullFrame(t1)

\* ("Crop Image", (yLeftUpper, xLeftUpper, height, width)).
OnCrop(s, p) ==
    CropImage(PutDiag(s, "Crop coordinates"), p[1], p[2], p[4], p[3])

\* ----------------------------------------------------------- live_imaging()
ImagesFull(s) == Len(s.images_queue) >= ImagesCap

\* The push of the loop as a blocking put(): on a full queue the worker waits.
PutBlocking(s, item) ==
    IF s.exc # "none" THEN s
    ELSE IF ImagesFull(s) THEN [s EXCEPT !.pc = "blocked"]
    ELSE PutImage(s, item)

\* "if not(self.images_queue.full()): self.images_queue.put_nowait(image)".
PutIfNotFull(s, item) ==
    IF s.exc # "none" THEN s
    ELSE IF ImagesFull(s) THEN [s EXCEPT !.ev.dropped = @ + 1, !.ev.imgFull = TRUE]
    ELSE PutImage(s, item)

\* The two lines and the flag of "except Exception as error" inside the loop.
OnFrameFailedWithFault(s) ==
    LET e == s.exc
        u == PutDiag(PutDiag([s EXCEPT !.exc = "none", !.ev.inner = TRUE],
                             "The Live Mode finished because of thrown Exception"),
                     "Thrown error")
    IN IF u.exc = "none" THEN PutFault([u EXCEPT !.live_stream_flag = FALSE], e) ELSE u

OnFrameFailed(s) ==
    LET u == PutDiag(PutDiag([s EXCEPT !.exc = "none", !.ev.inner = TRUE],
                             "The Live Mode finished because of thrown Exception"),
                     "Thrown error")
    IN IF u.exc = "none" THEN [u EXCEPT !.live_stream_flag = FALSE] ELSE u

\* Entering live_imaging(): the flag, and the device's stream start.
EnterLive(s, acq) ==
    IF s.exc # "none" THEN s
    ELSE LET s1 == [s EXCEPT !.live_stream_flag = TRUE] IN
         IF IsPhys(s1) /\ HasHandle(s1)
         THEN IF impl = "uscope"
              THEN IF acq = "raise" THEN Raise(AdapterCall(s1), "AdapterError")
                   ELSE AdapterCall(s1)
              ELSE [AdapterCall(s1) EXCEPT !.status = IF acq = "ok" THEN "ok" ELSE "bad"]
         ELSE s1

\* Part (a)-(c) of one iteration: the frame of this tick and its push.
AcquireFrame(s, acq) ==
    IF IsPhys(s) /\ HasHandle(s)
    THEN IF impl = "uscope"
         THEN LET s1 == AdapterCall(s) IN
              IF acq = "raise" THEN OnFrameFailed(Raise(s1, "AdapterError"))
              ELSE PutIfNotFull(s1, Frame(s.max_height, s.max_width))
         ELSE IF s.status # "ok"
              THEN LET u == PutDiag(s, "IDS camera capture hasn't succesful status")
                   IN IF u.exc = "none" THEN [u EXCEPT !.live_stream_flag = FALSE] ELSE u
              ELSE IF ImagesFull(s) THEN [s EXCEPT !.ev.imgFull = TRUE]
              ELSE LET s1 == AdapterCall(s) IN
                   IF acq = "raise" THEN OnFrameFailed(Raise(s1, "AdapterError"))
                   ELSE IF s.max_width = Unset
                   THEN OnFrameFailed(Raise(s1, "AttributeError"))
                   ELSE IF acq = "empty" THEN s1
                   ELSE PutImage(s1, Frame(s.max_height, s.max_width))
    ELSE IF IsPhys(s)
    THEN PutImage(s, Text("Live Image substituted by this string"))
    ELSE IF s.camera_type = "Simulated"
    THEN LET g == GenerateNoisePicture(s)
             t == [s EXCEPT !.ev.asked = TRUE] IN
         IF g.ok THEN PutIfNotFull(t, g.img) ELSE Raise(t, "DimensionError")
    ELSE s

\* Queue.put_nowait on messages_queue, by live_imaging() itself.
PutCommand(s, m) ==
    IF s.exc # "none" THEN s
    ELSE IF Len(s.messages_queue) < CommandsCap
    THEN [s EXCEPT !.messages_queue = Append(@, m), !.ev.cmdPut = TRUE]
    ELSE [s EXCEPT !.exc = "Full"]

\* The device's stream stop: wfs calls .stop() on the HIDS handle in the
\* Exception branch, which the handle does not have.
StopStream(s, onException) ==
    IF s.exc # "none" \/ ~(IsPhys(s) /\ HasHandle(s)) THEN s
    ELSE IF impl = "wfs" /\ onException THEN Raise(AdapterCall(s), "AttributeError")
    ELSE AdapterCall(s)

\* Part (d) that puts every command it does not handle back on the queue.
CheckCommandsPutBack(s) ==
    IF s.exc # "none" \/ s.messages_queue = << >> THEN s
    ELSE LET m == Head(s.messages_queue)
             t == Deq(s)
         IN IF IsStopLive(m)
            THEN LET u == StopStream(PutDiag(t, "Camera stop live streaming"), FALSE)
                 IN IF u.exc = "none" THEN [u EXCEPT !.live_stream_flag = FALSE] ELSE u
            ELSE LET u == PutCommand(t, m)
                 IN IF u.exc = "none" THEN [u EXCEPT !.live_stream_flag = FALSE] ELSE u

\* Part (d) without "self.live_stream_flag = False" in the Stop branch.
CheckCommandsFlagKept(s) ==
    IF s.exc # "none" \/ s.messages_queue = << >> THEN s
    ELSE LET m == Head(s.messages_queue)
             t == Deq(s)
         IN IF IsStopLive(m)
            THEN StopStream(PutDiag(t, "Camera stop live streaming"), FALSE)
            ELSE IF m.k = "exc"
            THEN LET u == PutCommand(
                            StopStream(
                              PutDiag(t, "Camera stop live streaming because of the reported error"),
                              TRUE),
                            m)
                 IN IF u.exc = "none" THEN [u EXCEPT !.live_stream_flag = FALSE] ELSE u
            ELSE t

\* Part (d) of one iteration: at most one message is taken from Commands.
CheckCommands(s) ==
    IF s.exc # "none" \/ s.messages_queue = << >> THEN s
    ELSE LET m == Head(s.messages_queue)
             t == Deq(s)
         IN IF IsStopLive(m)
            THEN LET u == StopStream(PutDiag(t, "Camera stop live streaming"), FALSE)
                 IN IF u.exc = "none" THEN [u EXCEPT !.live_stream_flag = FALSE] ELSE u
            ELSE IF m.k = "exc"
            THEN LET u == PutCommand(
                            StopStream(
                              PutDiag(t, "Camera stop live streaming because of the reported error"),
                              TRUE),
                            m)
                 IN IF u.exc = "none" THEN [u EXCEPT !.live_stream_flag = FALSE] ELSE u
            ELSE t

\* Frames of this tick count for the followed "Stop Live Stream".
CountFrames(s) ==
    IF s.track.on THEN [s EXCEPT !.track.frames = @ + s.ev.pushed] ELSE s

\* One iteration of "while self.live_stream_flag:" and, when it was the last
\* one, the return to run() and the rest of run()'s iteration.
LiveIteration(s, acq, due) ==
    LET t == CheckCommands(CountFrames(AcquireFrame([s EXCEPT !.ev.op = "Tick"], acq)))
    IN IF t.exc # "none" THEN EndIteration(OnLiveFailed(t), due)
       ELSE IF ~t.live_stream_flag THEN EndIteration(t, due)
       ELSE t

\* A tick in two steps, for the interleavings of its push with the readers of
\* Images. The frame a tick without error holds:
TickFrame(s) ==
    IF s.camera_type = "Simulated" THEN GenerateNoisePicture(s).img
    ELSE Frame(s.max_height, s.max_width)

\* A loop that puts without looking at full().
SeesRoomAlways(s) == TRUE

\* "if not(self.images_queue.full()):" of the Simulated branch and of the
\* branch with the device.
SeesRoom(s) == ~ImagesFull(s)

\* The first step: the frame is there and full() has answered False.
CheckRoom(s) ==
    LET s0 == [s EXCEPT !.ev.op = "Check"]
    IN [(IF IsPhys(s0) THEN AdapterCall(s0) ELSE s0) EXCEPT !.pc = "putting"]

\* The second step: put_nowait(image) (the PCO branch of uscope passes on
\* Full), then the rest of the iteration as in LiveIteration.
PutChecked(s, due) ==
    LET s1 == PutImage([s EXCEPT !.ev.op = "Put", !.pc = "streaming"], TickFrame(s))
        s2 == IF s1.exc = "Full" /\ impl = "uscope" /\ IsPhys(s1)
              THEN [s1 EXCEPT !.exc = "none"] ELSE s1
        t == CheckCommands(CountFrames(s2))
    IN IF t.exc # "none" THEN EndIteration(OnLiveFailed(t), due)
       ELSE IF ~t.live_stream_flag THEN EndIteration(t, due)
       ELSE t

\* "Start Live Stream": the line, then live_imaging() up to its loop.
OnStartLive(s, acq, due) ==
    LET t1 == PutDiag(s, "Camera start live streaming")
    IN IF t1.exc # "none" THEN Escaped(t1)
       ELSE LET t2 == EnterLive(t1, acq)
            IN IF t2.exc # "none" THEN EndIteration(OnLiveFailed(t2), due)
               ELSE [t2 EXCEPT !.pc = "streaming"]

\* --------------------------------------------------------- worker actions
\* "if not(empty()) and qsize() > 0 and self.initialized: get_nowait()".
CanDispatch == pc = "ready" /\ initialized /\ messages_queue # << >>
Taken(op) ==
    Deq([Cur EXCEPT !.ev.op = op, !.origin.prev = origin.cur, !.origin.cur = op])
Msg == Head(messages_queue)

HandleClose ==
    /\ CanDispatch /\ IsClose(Msg)
    /\ Commit(OnClose(Taken("Close")))

HandleStartLive ==
    /\ CanDispatch /\ Msg.k = "str" /\ Msg.s = "Start Live Stream"
    /\ \E acq \in StartOutcomes, due \in DueChoices :
          Commit(OnStartLive(Taken("StartLive"), acq, due))

HandleSnap ==
    /\ CanDispatch /\ Msg.k = "str" /\ Msg.s = "Snap single image"
    /\ \E acq \in SnapOutcomes, due \in DueChoices :
          Commit(EndIteration(OnSnap(Taken("Snap"), acq), due))

HandleStatus ==
    /\ CanDispatch /\ Msg.k = "str" /\ Msg.s = StatusName
    /\ \E due \in DueChoices :
          Commit(EndIteration(ReturnCameraStatus(Taken("Status")), due))

HandleRestore ==
    /\ CanDispatch /\ Msg.k = "str" /\ Msg.s = "Restore Full Frame"
    /\ \E due \in DueChoices :
          Commit(EndIteration(OnRestore(Taken("Restore")), due))

HandleCrop ==
    /\ CanDispatch /\ Msg.k = "tuple" /\ Msg.s = "Crop Image"
    /\ \E due \in DueChoices :
          Commit(EndIteration(OnCrop(Taken("Crop"), Msg.p), due))

HandleExposure ==
    /\ CanDispatch /\ Msg.k = "tuple" /\ Msg.s = "Set exposure time"
    /\ \E due \in DueChoices :
          Commit(EndIteration(SetExposureTime(Taken("Exposure"), Msg.t, Msg.p[1]), due))

HandleResize ==
    /\ CanDispatch /\ Msg.k = "tuple" /\ Msg.s = "Change simulate picture sizes to:"
    /\ \E due \in DueChoices :
          Commit(EndIteration(UpdateSimulatedSizes(Taken("Resize"), Msg.p[1], Msg.p[2]), due))

HandleException ==
    /\ CanDispatch /\ Msg.k = "exc"
    /\ \E due \in DueChoices :
          Commit(EndIteration(OnException(Taken("Exception")), due))

\* A str or tuple that no branch of run() matches.
HandleOther ==
    /\ CanDispatch
    /\ \/ Msg.k = "str" /\ Msg.s \notin KnownStrings
       \/ Msg.k = "tuple" /\ Msg.s \notin KnownCommands
    /\ \E due \in DueChoices : Commit(EndIteration(Taken("Other"), due))

\* A tuple that is not a pair: "(command, parameters) = message" raises
\* ValueError, which nothing in run() catches.
HandleLongTuple ==
    /\ CanDispatch /\ Msg.k = "tuple3"
    /\ Commit(Escaped(Raise(Taken("LongTuple"), "ValueError")))

\* An iteration of run() that finds Commands empty.
Idle ==
    /\ pc = "ready" /\ initialized /\ messages_queue = << >>
    /\ \E due \in DueChoices : Commit(EndIteration([Cur EXCEPT !.ev.op = "Idle"], due))

StreamTick ==
    /\ pc = "streaming"
    /\ \E acq \in TickOutcomes, due \in DueChoices : Commit(LiveIteration(Cur, acq, due))

\* The two steps of a tick whose acquisition succeeds: the Simulated camera
\* with sides of at least 2, the camera with its device (wfs: capture running).
TickCheck ==
    /\ pc = "streaming"
    /\ \/ camera_type = "Simulated" /\ GenerateNoisePicture(Cur).ok
       \/ /\ camera_type = PhysType(impl) /\ camera_reference # "None"
          /\ max_width # Unset /\ (impl = "wfs" => status = "ok")
    /\ SeesRoom(Cur)
    /\ Commit(CheckRoom(Cur))

TickPut == pc = "putting" /\ \E due \in DueChoices : Commit(PutChecked(Cur, due))

Lifecycle == Start \/ LaunchStep \/ Finish \/ Idle
LifeHandlers ==
    HandleClose \/ HandleStartLive \/ HandleSnap \/ HandleException
    \/ HandleOther \/ StreamTick
SizeHandlers == HandleRestore \/ HandleCrop \/ HandleResize \/ HandleSnap

\* ------------------------------------------- the GUI side (wfs): shutdown
\* Process.is_alive() of the camera process: started and not ended yet.
IsAlive == pc \in {"launching", "ready", "streaming", "exiting", "blocked"}

\* close_current_camera() up to the put of "Close the camera": the guard
\* "camera_handle is not None", then put_nowait on messages2Camera; a full
\* queue raises queue.Full in the GUI callback and the method is left.
PutCloseCommand ==
    /\ camera_handle = "Process" /\ join_result = "none" /\ pc # "created"
    /\ IF Len(messages_queue) < CommandsCap
       THEN /\ messages_queue' = Append(messages_queue, StrMsg("Close the camera"))
            /\ join_result' = "sent"
       ELSE /\ messages_queue' = messages_queue
            /\ join_result' = "raised"
    /\ last' = NoEvents
    /\ UNCHANGED <<impl, env, actorVars, exceptions_queue, images_queue,
                   messages2caller, sent, closeCalls, closedBy, track, origin,
                   camera_handle, messages_printer, exceptions_checker, wait_loop>>

\* The rest of close_current_camera(): "if is_alive(): join(timeout=
\* global_timeout)" returns when the process has ended or when the timeout has
\* elapsed, whichever is first; then "self.camera_handle = None" and the
\* collected Diagnostics are printed until the queue is empty.
ReleaseCamera ==
    /\ join_result = "sent"
    /\ join_result' = IF IsAlive THEN "timeout" ELSE "finished"
    /\ camera_handle' = "None"
    /\ messages2caller' = << >>
    /\ last' = NoEvents
    /\ UNCHANGED <<impl, env, actorVars, messages_queue, exceptions_queue,
                   images_queue, sent, closeCalls, closedBy, track, origin,
                   messages_printer, exceptions_checker, wait_loop>>

\* ------------------------------------- the GUI side (wfs): MessagesPrinter
PrinterStops == {"Stop Messages Printer", "Stop", "Stop Program"}
\* Diagnostics values that are not str: the list put by run() after a failed
\* snap, "str(error).split(sep=' ')".
NonTextLines == {"Error string, split"}
\* The Diagnostics lines with the substring "initialized" and those with the
\* substring "available"; "in" of Python compares case, so the line
\* "CAMERA NOT INITIALIZED! ..." has neither.
WithInitialized ==
    {"The Simulated camera initialized", "The IDS camera initialized",
     "The PCO camera initialized"}
WithAvailable == {"IDS controlling library and camera are both available"}
StartupCritical(m) == m \in WithAvailable \cup WithInitialized

\* "message = self.messages_queue.get_nowait()" of MessagesPrinter.run().
PrinterGet ==
    /\ messages_printer.running /\ messages_printer.held = "none"
    /\ messages2caller # << >>
    /\ messages_printer' = [messages_printer EXCEPT !.held = Head(messages2caller)]
    /\ messages2caller' = Tail(messages2caller)
    /\ last' = NoEvents
    /\ UNCHANGED <<impl, env, actorVars, messages_queue, exceptions_queue,
                   images_queue, sent, closeCalls, closedBy, track, origin,
                   camera_handle, join_result, exceptions_checker, wait_loop>>

\* The rest of one pass of the loop of MessagesPrinter.run() on the value m
\* taken from the queue q: not a str, nothing; a stop name, the loop ends; a
\* line with "available" or "initialized", put_nowait on the same queue, and
\* queue.Full (only Empty is caught) ends the thread; any other line, print.
PrinterPass(p, q, m) ==
    LET done == [p EXCEPT !.held = "none", !.msg = m] IN
    IF m \in NonTextLines THEN [p |-> [done EXCEPT !.act = "ignored"], q |-> q]
    ELSE IF m \in PrinterStops
    THEN [p |-> [done EXCEPT !.act = "stopped", !.running = FALSE], q |-> q]
    ELSE IF StartupCritical(m)
    THEN IF Len(q) < DiagnosticsCap
         THEN [p |-> [done EXCEPT !.act = "putback"], q |-> Append(q, m)]
         ELSE [p |-> [done EXCEPT !.act = "lost", !.running = FALSE], q |-> q]
    ELSE [p |-> [done EXCEPT !.act = "printed"], q |-> q]

PrinterHandle ==
    /\ messages_printer.held # "none"
    /\ LET r == PrinterPass(messages_printer, messages2caller, messages_printer.held)
       IN /\ messages_printer' = r.p
          /\ messages2caller' = r.q
    /\ last' = NoEvents
    /\ UNCHANGED <<impl, env, actorVars, messages_queue, exceptions_queue,
                   images_queue, sent, closeCalls, closedBy, track, origin,
                   camera_handle, join_result, exceptions_checker, wait_loop>>

\* camera_ctrl_exit(): "if self.messages_printer.is_alive():
\* self.camera_messages.put_nowait('Stop Messages Printer')", followed by
\* "self.messages_printer.join()": the GUI puts no second stop name while the
\* printer has not taken the first.
PutStopPrinter ==
    /\ messages_printer.running
    /\ \A i \in 1..Len(messages2caller) : messages2caller[i] # "Stop Messages Printer"
    /\ messages_printer.held # "Stop Messages Printer"
    /\ Len(messages2caller) < DiagnosticsCap
    /\ messages2caller' = Append(messages2caller, "Stop Messages Printer")
    /\ last' = NoEvents
    /\ UNCHANGED <<impl, env, actorVars, messages_queue, exceptions_queue,
                   images_queue, sent, closeCalls, closedBy, track, origin,
                   guiVars>>

\* ----------------------------------- the GUI side (wfs): ExceptionsChecker
CheckerStops == {"Stop Exception Checker", "Stop", "Stop Program"}
\* The str values the caller puts on exceptions_queue: the stop names and a
\* text that is none of them.
FaultTexts == CheckerStops \cup {"Some text"}
\* isinstance(message, Exception): every value the worker puts on
\* exceptions_queue is an exception, every value the GUI puts is a str.
IsException(m) == m \notin FaultTexts

\* A checker that calls camera_ctrl_exit() for a stop name as well.
CheckerRunQuitsOnStop(c, m) ==
    IF IsException(m) \/ m \in CheckerStops
    THEN [c EXCEPT !.running = FALSE, !.quits = @ + 1, !.act = "quit", !.msg = m]
    ELSE [c EXCEPT !.act = "printed", !.msg = m]

\* One pass of the loop of ExceptionsChecker.run() that took the value m, and
\* the statements after the loop when the pass has ended it: an exception sets
\* quit_flag and camera_ctrl_exit() is called; a stop name ends the loop; any
\* other str is reported as not recognized.
CheckerRun(c, m) ==
    IF IsException(m)
    THEN [c EXCEPT !.running = FALSE, !.quits = @ + 1, !.act = "quit", !.msg = m]
    ELSE IF m \in CheckerStops
    THEN [c EXCEPT !.running = FALSE, !.act = "stopped", !.msg = m]
    ELSE [c EXCEPT !.act = "printed", !.msg = m]

CheckerStep ==
    /\ exceptions_checker.running
    /\ exceptions_queue # << >>
    /\ exceptions_checker' = CheckerRun(exceptions_checker, Head(exceptions_queue))
    /\ exceptions_queue' = Tail(exceptions_queue)
    /\ last' = NoEvents
    /\ UNCHANGED <<impl, env, actorVars, messages_queue, images_queue,
                   messages2caller, sent, closeCalls, closedBy, track, origin,
                   camera_handle, join_result, messages_printer, wait_loop>>

\* The GUI puts a str on exceptions_queue, as camera_ctrl_exit() does with
\* "Stop Exception Checker" while the checker is alive.
CallerPutFaultText(m) ==
    /\ exceptions_checker.running
    /\ Len(exceptions_queue) < FaultsCap
    /\ exceptions_queue' = Append(exceptions_queue, m)
    /\ last' = NoEvents
    /\ UNCHANGED <<impl, env, actorVars, messages_queue, images_queue,
                   messages2caller, sent, closeCalls, closedBy, track, origin,
                   guiVars>>

\* camera_ctrl_exit() called by the checker: close_current_camera().
WatcherShutdown == exceptions_checker.quits > 0 /\ (PutCloseCommand \/ ReleaseCamera)

\* ---------------------- the GUI side (wfs): the wait of switch_active_camera
\* One pass of "while(not camera_initialized_flag and i <= attempts)" for the
\* Simulated camera that finds a line on Diagnostics: the line is taken, and
\* the launch confirmation sets camera_initialized_flag.
WaitGet ==
    /\ wait_loop = "waiting" /\ camera_type = "Simulated"
    /\ messages2caller # << >>
    /\ messages2caller' = Tail(messages2caller)
    /\ wait_loop' = IF Head(messages2caller) = Launched.m THEN "confirmed" ELSE "waiting"
    /\ last' = NoEvents
    /\ UNCHANGED <<impl, env, actorVars, messages_queue, exceptions_queue,
                   images_queue, sent, closeCalls, closedBy, track, origin,
                   camera_handle, join_result, messages_printer, exceptions_checker>>

\* "if i > attempts and not camera_initialized_flag: self.camera_handle = None".
\* The attempts last about 6 s: they run out only when the confirmation is not
\* on the queue and the start-up of the worker, which would put it, is over.
WaitTimeout ==
    /\ wait_loop = "waiting" /\ camera_type = "Simulated"
    /\ pc \notin {"created", "launching"}
    /\ \A i \in DOMAIN messages2caller : messages2caller[i] # Launched.m
    /\ wait_loop' = "abandoned"
    /\ camera_handle' = "None"
    /\ last' = NoEvents
    /\ UNCHANGED <<impl, env, actorVars, queueVars, sent, closeCalls, closedBy,
                   track, origin, join_result, messages_printer, exceptions_checker>>

\* ------------------------------------------------------- specifications
Send(cmds) == \E m \in cmds : CallerSend(m)

\* The life cycle: close, stream, snap, injected faults; every camera type.
NextLife == Send(LifeCmds) \/ Readers \/ Lifecycle \/ LifeHandlers
SpecLife == InitSquare /\ [][NextLife]_vars

\* "Set exposure time" with int and float payloads; every camera type.
NextExposure == Send(ExposureMsgs) \/ Readers \/ Lifecycle \/ HandleExposure
SpecExposure == InitSquare /\ [][NextExposure]_vars

\* Frames of the Simulated camera: a crop to MinSide x (MinSide + 1), a crop to
\* 1 x 1, a resize to width MinSide and height MinSide + 1, restore, snap and
\* streaming.
WideCrop == TupleMsg("Crop Image", "int", <<0, 0, MinSide, MinSide + 1>>)
SmallCrop == TupleMsg("Crop Image", "int", <<0, 0, MinSide - 1, MinSide - 1>>)
TallResize ==
    TupleMsg("Change simulate picture sizes to:", "int", <<MinSide, MinSide + 1>>)
FrameCmds ==
    {WideCrop, SmallCrop, TallResize, StrMsg("Restore Full Frame"),
     StrMsg("Snap single image"), StrMsg("Start Live Stream")}
NextFrames ==
    Send(FrameCmds) \/ Readers \/ Lifecycle \/ SizeHandlers
    \/ HandleStartLive \/ StreamTick
SpecFrames == InitSimulatedOnly /\ [][NextFrames]_vars

\* A stream that meets an exception: every camera type, "Start Live Stream"
\* and a crop of the Simulated camera to 1 x 1.
StreamErrCmds == {StrMsg("Start Live Stream"), SmallCrop}
NextStreamErr ==
    Send(StreamErrCmds) \/ Readers \/ Lifecycle
    \/ HandleStartLive \/ HandleCrop \/ StreamTick
SpecStreamErr == InitSquare /\ [][NextStreamErr]_vars

\* Commands of every kind sent to a worker that streams; every camera type.
StreamCmds ==
    {StrMsg("Start Live Stream"), StrMsg("Stop Live Stream"),
     StrMsg("Close the camera"), StrMsg("Snap single image"),
     TupleMsg("Set exposure time", (IF impl = "uscope" THEN "int" ELSE "float"), <<OneMs>>),
     WideCrop}
NextStreamCmds ==
    Send(StreamCmds) \/ CallerGetMessage \/ Lifecycle \/ HandleStartLive
    \/ StreamTick \/ HandleClose \/ HandleSnap \/ HandleExposure \/ HandleCrop
SpecStreamCmds == InitSquare /\ [][NextStreamCmds]_vars

\* The dispatch loop with two producers, the caller's Send and the shutdown
\* of the wfs GUI, and with commands run() has no branch for: a str, a pair
\* and a tuple of three.
LongTuple == [k |-> "tuple3", s |-> "Unknown command", t |-> "int", p |-> <<1, 1>>]
DispatchCmds ==
    {StrMsg("Unknown command"), TupleMsg("Unknown command", "int", <<1>>),
     LongTuple, StrMsg("Snap single image")}
NextDispatch ==
    Send(DispatchCmds) \/ (impl = "wfs" /\ PutCloseCommand) \/ Readers
    \/ Lifecycle \/ HandleSnap \/ HandleClose \/ HandleOther \/ HandleLongTuple
SpecDispatch == InitSquare /\ [][NextDispatch]_vars

\* The stream next to the readers of Images, the push of a tick both in one
\* step and in two; every camera type.
ImagesCmds == {StrMsg("Start Live Stream"), StrMsg("Stop Live Stream")}
NextImages ==
    Send(ImagesCmds) \/ Readers \/ Lifecycle \/ HandleStartLive \/ StreamTick
    \/ TickCheck \/ TickPut
SpecImages == InitSquare /\ [][NextImages]_vars

\* switch_active_camera() to the Simulated camera of wfs while MessagesPrinter
\* runs on the same Diagnostics queue; snaps are sent once the wait is over.
InitSwitch == InitWith({"Simulated"}, SquareSizes) /\ impl = "wfs"
NextSwitch ==
    WaitGet \/ WaitTimeout \/ PrinterGet \/ PrinterHandle \/ PutStopPrinter
    \/ (wait_loop # "waiting" /\ Send({StrMsg("Snap single image")}))
    \/ CallerGetImage \/ Lifecycle \/ HandleSnap
SpecSwitch == InitSwitch /\ [][NextSwitch]_vars

\* Invalid parameters on the Simulated camera: a crop and a resize to 1 x 1, an
\* exposure of 0 as int and of -1 ms as float, and a snap.
SmallResize ==
    TupleMsg("Change simulate picture sizes to:", "int", <<MinSide - 1, MinSide - 1>>)
InvalidCmds ==
    {SmallCrop, SmallResize, TupleMsg("Set exposure time", "int", <<0>>),
     TupleMsg("Set exposure time", "float", <<0 - OneMs>>),
     StrMsg("Snap single image")}
NextInvalid ==
    Send(InvalidCmds) \/ Readers \/ Lifecycle
    \/ HandleCrop \/ HandleResize \/ HandleExposure \/ HandleSnap
SpecInvalid == InitSimulatedOnly /\ [][NextInvalid]_vars

\* The close commands in several spellings; every camera type.
CloseCmds == {StrMsg(n) : n \in CloseSpellings}
NextClose == Send(CloseCmds) \/ Readers \/ Lifecycle \/ HandleClose \/ HandleOther
SpecClose == InitSquare /\ [][NextClose]_vars

\* The resize command sent to every camera type.
NextResize == Send(ResizeMsgs) \/ Readers \/ Lifecycle \/ HandleResize
SpecResize == InitSquare /\ [][NextResize]_vars

\* The wfs GUI closes its camera: close_current_camera() next to a worker
\* that snaps images; every camera type of wfs.
InitWfs == InitSquare /\ impl = "wfs"
NextShutdown ==
    PutCloseCommand \/ ReleaseCamera \/ Send({StrMsg("Snap single image")})
    \/ Readers \/ Lifecycle \/ HandleClose \/ HandleSnap
SpecShutdown == InitWfs /\ [][NextShutdown]_vars

\* The MessagesPrinter thread of the wfs GUI next to a worker that starts,
\* snaps images and writes its Diagnostics.
NextPrinter ==
    PrinterGet \/ PrinterHandle \/ PutStopPrinter
    \/ Send({StrMsg("Snap single image")}) \/ CallerGetMessage \/ Lifecycle
    \/ HandleSnap
SpecPrinter == InitWfs /\ [][NextPrinter]_vars

\* The ExceptionsChecker thread of the wfs GUI next to a worker that snaps
\* images and receives injected errors; the GUI puts texts on Faults.
NextWatcher ==
    CheckerStep \/ (\E m \in FaultTexts : CallerPutFaultText(m)) \/ WatcherShutdown
    \/ Send({StrMsg("Snap single image"), ExcMsg("Injected")})
    \/ CallerGetImage \/ CallerGetMessage \/ Lifecycle
    \/ HandleSnap \/ HandleException
SpecWatcher == InitWfs /\ [][NextWatcher]_vars

\* Crop, restore, resize and snap on the Simulated camera.
NextSizes == Send(SizeCmds) \/ Readers \/ Lifecycle \/ SizeHandlers
SpecSizes == InitSimulatedOnly /\ [][NextSizes]_vars

\* ------------------------------------------------------------- properties
Terminated == pc \in {"done", "crashed"}
LoopEnded == pc \in {"exiting", "done"}
FaultTaken == last.deq.k = "exc"
ChannelsWithinCapacity ==
    /\ Len(messages_queue) <= CommandsCap
    /\ Len(messages2caller) <= DiagnosticsCap
    /\ Len(exceptions_queue) <= FaultsCap
    /\ Len(images_queue) <= ImagesCap

\* C1: whatever commands and injected errors are delivered, close() is called
\* at most once in the actor's lifetime, and exactly once by the time the
\* worker of an actor that ended its command loop has terminated.
C1_CloseExactlyOnce ==
    /\ closeCalls <= 1
    /\ (pc = "done" /\ closedBy # "none") => closeCalls = 1

\* C2: when only Close commands have been sent, the step that handles the
\* first one calls close() exactly once and reports no fault; the worker
\* takes no command after that step, so a second Close has no effect.
C2_CloseIdempotent ==
    /\ (origin.onlyClose /\ last.op = "Close")
          => (last.closes = 1 /\ last.faults = 0 /\ LoopEnded)
    /\ (last.wasClosed /\ closedBy = "Close") => (last.deq = NoMsg /\ last.closes = 0)

\* C3: a step of the command loop or of the streaming loop that takes a Close
\* synonym from Commands leaves both loops, on the way to the worker's end.
C3_CloseLeavesLoops ==
    (IsClose(last.deq) /\ last.op \in {"Close", "Tick"})
        => pc \notin {"ready", "streaming"}

\* C4: an error value taken from Commands by the command loop acts as a Close:
\* close() is called and the command loop is ended, with no further command.
C4_FaultActsAsClose ==
    (FaultTaken /\ last.op = "Exception") => (last.closes = 1 /\ LoopEnded)

\* C5 as stated: once "Stop Live Stream" is on Commands, the streaming loop
\* pushes at most one more frame, whatever else Commands holds.
C5_OneTickAfterStop == track.frames <= 1

\* C5 as amended: with k commands ahead of "Stop Live Stream" when it was put,
\* the streaming loop pushes at most k + 1 more frames.
C5_OneTickPerCommandAhead == track.frames <= track.aheadAtPut + 1

\* A tick takes the followed Stop after a command that was ahead of it; a
\* frame was pushed in each of the two ticks.
C5_StopBehindOneCommand ==
    /\ last.op = "Tick" /\ IsStopLive(last.deq)
    /\ track.taken /\ track.aheadAtPut = 1 /\ track.frames = 2

\* C6: once the command loop has been ended by a Close command or by a failed
\* snap, no step takes a command, pushes to Images or calls the device.
C6_ClosedIsTerminal ==
    /\ last.wasClosed => (last.deq = NoMsg /\ last.pushed = 0 /\ last.adapter = 0)
    /\ closedBy # "none" => last.afterClosed = 0

\* C7: no channel ever holds more items than its capacity, and the worker
\* never waits on a push.
C7_ChannelsBounded == ChannelsWithinCapacity /\ pc # "blocked"

\* A tick met a full Images queue, dropped its frame and the loop goes on.
C7_FrameDroppedOnFull ==
    /\ last.op = "Tick" /\ last.dropped = 1
    /\ Len(images_queue) = ImagesCap /\ pc = "streaming"

\* C8: a tick of the streaming loop that meets a full Images queue, and takes
\* no command, reports nothing and stays in the streaming loop, for every
\* camera type and with or without the device.
C8_FullImagesDropsSilently ==
    (last.op = "Tick" /\ last.imgFull /\ last.deq = NoMsg)
        => (last.faults = 0 /\ last.diags = 0 /\ pc = "streaming")

\* C9 as stated: after "Set exposure time" the exposure is at least 1 ms, and
\* exactly 1 ms when the payload was 0 or negative.
C9_AtLeastOneMs ==
    last.op = "Exposure"
        => /\ exposure_time_ms >= OneMs
           /\ last.deq.p[1] <= 0 => exposure_time_ms = OneMs

AcceptedType == IF impl = "uscope" THEN "int" ELSE "float"

\* C9 as amended: a payload of the accepted type (int in uscope_ctrl, float in
\* wfs_reconstruction) sets the exposure to the payload if it is positive and
\* to 1 ms if it is 0 or negative; a payload of the other type leaves the
\* exposure as it was; the exposure is positive throughout.
C9_ExposureOfAcceptedType ==
    [][last'.op = "Exposure"
         => /\ exposure_time_ms' > 0
            /\ exposure_time_ms' =
                 IF last'.deq.t # AcceptedType THEN exposure_time_ms
                 ELSE IF last'.deq.p[1] <= 0 THEN OneMs
                 ELSE last'.deq.p[1]]_vars

\* A payload of the accepted type that is 0 or negative was clamped to 1 ms.
C9_NonPositiveClamped ==
    /\ last.op = "Exposure" /\ last.deq.t = AcceptedType
    /\ last.deq.p[1] <= 0 /\ exposure_time_ms = OneMs

CropThenRestore ==
    /\ camera_type = "Simulated" /\ last.op = "Restore"
    /\ origin.prev = "Crop" /\ pc # "crashed"

\* C10 as stated: "Restore Full Frame" handled right after "Crop Image" by
\* the Simulated camera gives the width and height recorded by __init__.
C10_RestoresInitialSizes ==
    CropThenRestore => (image_width = origin.w /\ image_height = origin.h)

\* C10 as amended: it gives the current maximal width and height, which are
\* those recorded by __init__ unless a resize command was handled before.
C10_RestoresMaximalSizes ==
    CropThenRestore
        => /\ image_width = max_width /\ image_height = max_height
           /\ ~origin.resized => (max_width = origin.w /\ max_height = origin.h)

\* A resize, then a crop, then the restore: back to the sizes of the resize.
C10_RestoredAfterResize ==
    /\ CropThenRestore /\ origin.resized
    /\ image_width = max_width /\ max_width # origin.w

\* A snap of the Simulated camera with both sides at least MinSide that found
\* room in Images.
GoodSimulatedSnap ==
    /\ last.op = "Snap"
    /\ camera_type = "Simulated"
    /\ image_width >= MinSide /\ image_height >= MinSide
    /\ ~last.imgFull

\* C11: a "Snap single image" of the Simulated camera in Ready, with width and
\* height at least 2 and room in Images, pushes exactly one Frame, emits no
\* Fault and leaves the actor in Ready.
C11_SimulatedSnapPushesOne ==
    GoodSimulatedSnap => (last.pushed = 1 /\ last.faults = 0 /\ pc = "ready")

\* A step of the Simulated camera that asked generate_noise_picture() for an
\* image: a snap or a tick of the stream.
AskedFrame == camera_type = "Simulated" /\ last.asked

ProducedFrame == AskedFrame /\ last.pushed = 1
LastImage == images_queue[Len(images_queue)]
Samples(f) == f.h * f.w

\* C12: a Frame produced by the Simulated camera has the shape (image_height,
\* image_width), so height x width samples, every sample within the range of
\* the declared pixel type 'uint8'; "Crop Image" (y, x, height, width), the
\* resize command (width, height) and "Restore Full Frame" set the sizes a
\* later frame has.
C12_FrameHasCurrentSizes ==
    /\ ProducedFrame =>
          /\ LastImage.kind = "Frame"
          /\ LastImage.h = image_height /\ LastImage.w = image_width
          /\ Samples(LastImage) = image_height * image_width
          /\ 0 <= LastImage.lo /\ LastImage.hi <= PixelMax
    /\ (camera_type = "Simulated" /\ last.raised = "none") =>
          /\ last.op = "Crop" =>
                image_height = last.deq.p[3] /\ image_width = last.deq.p[4]
          /\ last.op = "Resize" =>
                image_width = last.deq.p[1] /\ image_height = last.deq.p[2]
          /\ last.op = "Restore" =>
                image_width = max_width /\ image_height = max_height

\* A frame that is not square, produced after a crop or a resize.
C12_NonSquareFrameProduced ==
    ProducedFrame /\ image_height # image_width
    /\ (image_height # origin.h \/ image_width # origin.w)

\* C13: a snap or a tick of the Simulated camera whose width or height is
\* below 2 raises and pushes nothing, no image in Images has a side below 2,
\* and a Simulated camera constructed with such sizes is not initialized and
\* has its exception on Faults.
C13_SmallSizesRaise ==
    /\ (AskedFrame /\ (image_width < MinSide \/ image_height < MinSide)) =>
          (last.thrown = "DimensionError" /\ last.pushed = 0)
    /\ \A i \in 1..Len(images_queue) :
          images_queue[i].kind = "Frame" =>
             (images_queue[i].h >= MinSide /\ images_queue[i].w >= MinSide)
    /\ (camera_type = "Simulated" /\ pc = "created"
         /\ (origin.w < MinSide \/ origin.h < MinSide)) => ~initialized

\* A snap or a tick asked for a frame below the minimal size.
C13_SmallFrameAsked ==
    AskedFrame /\ (image_width < MinSide \/ image_height < MinSide)
    /\ last.pushed = 0

SmallOrigin == origin.w < MinSide \/ origin.h < MinSide

OnlyFullChannel ==
    /\ last.imgFull \/ last.chFull
    /\ last.thrown = "none"
    /\ last.op \notin {"Close", "Exception"}

\* C15: a full channel is never an error: a step that wants to write to a full
\* Diagnostics, Faults or Images queue does not raise out of the worker, puts
\* no Fault, does not close the camera and does not end the actor.
C15_FullChannelNoError ==
    OnlyFullChannel =>
        /\ last.raised = "none" /\ last.faults = 0 /\ last.closes = 0
        /\ pc \in {"launching", "ready", "streaming", "done"}

\* C16: a snap that finds Images full does not fail at once: it puts no Fault,
\* does not close the camera and leaves the actor in Ready.
C16_SnapWaitsForRoom ==
    (last.op = "Snap" /\ last.imgFull) =>
        (last.faults = 0 /\ last.closes = 0 /\ pc = "ready")

\* snap_single_image() raised: an exception of the acquisition, or queue.Full
\* of its put on Images.
SnapRaised == last.op = "Snap" /\ (last.thrown # "none" \/ last.imgFull)

\* C17: when "Snap single image" raises, the actor calls close(), puts the
\* exception on Faults exactly once, pushes no Frame for that snap and leaves
\* the command loop.
C17_SnapExceptionCloses ==
    SnapRaised =>
        /\ last.closes = 1 /\ last.faults = 1 /\ last.pushed = 0
        /\ LoopEnded

SnapThrew == last.op = "Snap" /\ last.thrown # "none"
StreamThrew == last.op \in {"Tick", "StartLive"} /\ last.thrown # "none"

\* C18: a failed acquisition is recoverable: after a snap that raised, the
\* failure is on Diagnostics and the actor is in Ready with the camera not
\* closed; after an exception in a tick of the stream the stream goes on.
C18_FailureIsRecoverable ==
    /\ SnapThrew => (pc = "ready" /\ last.closes = 0 /\ last.diags >= 1)
    /\ StreamThrew => pc = "streaming"

\* C18 as amended: after a snap that raised, close() was called, the actor is
\* no longer in Ready and the exception is on Faults unless a put met a full
\* queue; after an exception in the stream the stream is over: the actor is
\* back in Ready with the failure on Diagnostics, unless a put met a full
\* queue.
C18_FailureEndsSnapOrStream ==
    /\ SnapThrew =>
          /\ last.closes = 1 /\ pc \notin {"ready", "streaming"}
          /\ last.faults = 1 \/ last.chFull
    /\ StreamThrew =>
          /\ pc # "streaming"
          /\ (pc = "ready" /\ last.diags >= 1) \/ last.chFull

\* A snap raised, the camera was closed, the exception is on Faults and the
\* loop is over.
C18_SnapFailureClosed ==
    SnapThrew /\ last.closes = 1 /\ last.faults = 1 /\ pc = "exiting"

\* An exception of the stream in a step none of whose puts met a full queue.
StreamThrewWithRoom == StreamThrew /\ ~last.chFull

\* C19: an adapter exception raised inside the live-streaming loop causes
\* exactly one Diagnostics message and exactly one Fault and brings the actor
\* from Streaming back to Ready, for every camera type.
C19_OneDiagnosticOneFault ==
    StreamThrewWithRoom => (last.diags = 1 /\ last.faults = 1 /\ pc = "ready")

\* C19 as amended: the exception brings the actor back to Ready with at least
\* two Diagnostics lines (exactly two in a tick of the Simulated camera that
\* handled no command); an exception caught inside the loop of live_imaging()
\* puts no Fault, one that leaves live_imaging() puts exactly one.
C19_TwoLinesFaultIfEscaped ==
    StreamThrewWithRoom =>
        /\ pc = "ready"
        /\ last.diags >= 2
        /\ (camera_type = "Simulated" /\ last.op = "Tick" /\ last.deq = NoMsg)
              => last.diags = 2
        /\ last.faults = IF last.inner THEN 0 ELSE 1

\* An acquisition of a tick raised and was caught inside the loop.
C19_CaughtInsideLoop ==
    StreamThrewWithRoom /\ last.op = "Tick" /\ last.inner /\ pc = "ready"

\* A physical camera that cannot be opened: the driver library is missing, no
\* camera is connected, or opening the handle raises.
CannotOpen ==
    /\ camera_type = PhysType(impl)
    /\ ~env.lib \/ ~env.connected \/ env.open \in {"ValueError", "error"}

\* C20: a physical camera that cannot be opened still brings the actor to
\* Ready: the start of run() goes on to its start-up lines instead of raising
\* out of the worker or ending it, and the start-up ends in Ready.
C20_DegradedStillReady ==
    CannotOpen =>
        /\ last.op = "Start" => pc = "launching"
        /\ (last.op = "LaunchStep" /\ ~last.chFull) => pc \in {"launching", "ready"}

\* A physical camera running without its device: opening the handle raised
\* ValueError and run() went on with camera_reference = None.
Degraded == camera_type = PhysType(impl) /\ env.open = "ValueError"

\* A snap or a tick of the degraded camera that handled no other command.
DegradedAcquisition ==
    /\ Degraded /\ ~last.wasClosed
    /\ last.op = "Snap" \/ (last.op = "Tick" /\ last.deq = NoMsg)

\* C21: in degraded mode every snap and every tick of the stream puts a
\* placeholder Frame or a text on Images, the actor stays alive, and no
\* exception leaves the worker or is put on Faults.
C21_DegradedNeverFails ==
    DegradedAcquisition =>
        /\ last.pushed = 1
        /\ last.raised = "none" /\ last.faults = 0 /\ last.closes = 0
        /\ pc \in {"ready", "streaming"}

IsText(v) == v.kind # "Frame"
StartUpTexts ==
    {"The PCO camera initialized", "The IDS camera initialized",
     "The Simulated PCO camera initialized", "The Simulated IDS camera initialized"}

\* C22: every value on Images is a Frame or a text, and a text is there only
\* when a physical camera runs in degraded mode: never with the Simulated
\* camera and never with a physical camera whose device was opened.
C22_TextOnlyWhenDegraded ==
    \A i \in 1..Len(images_queue) : IsText(images_queue[i]) => Degraded

\* C22 as amended: a text on Images comes from a physical camera, never from
\* the Simulated one; it is either the notification run() puts once at its
\* start-up, after a successful opening as well as after a failed one, or a
\* value put for an acquisition in degraded mode.
C22_TextAtStartUpOrDegraded ==
    \A i \in 1..Len(images_queue) :
        IsText(images_queue[i]) =>
            /\ camera_type = PhysType(impl)
            /\ Degraded \/ images_queue[i].kind \in StartUpTexts

\* The notification of a successful opening is on Images.
C22_OpenedCameraPutText ==
    /\ camera_type = PhysType(impl) /\ env.open = "ok" /\ images_queue # << >>
    /\ IsText(images_queue[1]) /\ pc = "ready"

\* What the constructor leaves on messages_queue.
ConstructorCommands ==
    IF camera_type = "Simulated" /\ SmallOrigin
    THEN <<StrMsg("Specified height or width are less than 2")>>
    ELSE << >>

\* C23: the worker and the constructor never put a value on Commands.
C23_NoActorPutOnCommands ==
    /\ ~last.cmdPut
    /\ sent = 0 => messages_queue = << >>

\* C23 as amended: the actor puts a value on Commands in two cases only: the
\* constructor of a Simulated camera with a side below 2 puts the text of its
\* exception there, and a tick of the stream that takes an exception from
\* Commands puts that same exception back at the end of the queue.
C23_OnlyErrorsPutOnCommands ==
    /\ last.cmdPut =>
          /\ last.op = "Tick" /\ last.deq.k = "exc"
          /\ messages_queue # << >>
          /\ messages_queue[Len(messages_queue)] = last.deq
    /\ sent = 0 => messages_queue = ConstructorCommands

\* A tick of the stream put the exception it took back on Commands.
C23_ExceptionPutBack ==
    last.cmdPut /\ last.op = "Tick" /\ last.deq.k = "exc" /\ pc = "ready"

\* A string of the close family, whatever its letter case, was taken in Ready.
CloseSpellingTaken ==
    /\ last.op \in {"Close", "Other"} /\ last.deq.k = "str"
    /\ Lower(last.deq.s) \in FoldedCloseNames

\* C24: a string equal, ignoring letter case, to "Close the camera", "Stop",
\* "Stop Program" or "Close Camera" taken in Ready is handled as Close.
C24_CloseIgnoresCase ==
    CloseSpellingTaken => (last.op = "Close" /\ pc # "ready")

\* C24 as amended: the comparison is exact: the string is handled as Close if
\* and only if it is one of "Close the camera", "Stop", "Stop Program",
\* "Close Camera" (and "Close camera" in wfs_reconstruction); any other
\* spelling is ignored: nothing is closed and the actor stays in Ready, unless
\* the status lines of that iteration met a full Diagnostics queue.
C24_CloseByExactName ==
    CloseSpellingTaken =>
        /\ last.op = "Close" <=> last.deq.s \in CloseNames
        /\ last.op = "Other" => (last.closes = 0 /\ (pc = "ready" \/ last.chFull))

\* A close command in another letter case was taken and ignored.
C24_OtherCaseIgnored ==
    CloseSpellingTaken /\ last.op = "Other" /\ pc = "ready"

\* C25: "Change simulate picture sizes to:" (width, height) sets the maximal
\* and the current width and height of the Simulated camera to the payload and
\* leaves the maximal and current sizes of a physical camera, with or without
\* its device, as they were.
C25_ResizeSimulatedOnly ==
    [][last'.op = "Resize" =>
         IF camera_type = "Simulated"
         THEN /\ image_width' = last'.deq.p[1] /\ max_width' = last'.deq.p[1]
              /\ image_height' = last'.deq.p[2] /\ max_height' = last'.deq.p[2]
         ELSE /\ image_width' = image_width /\ max_width' = max_width
              /\ image_height' = image_height /\ max_height' = max_height]_vars

\* C26: handling a Close command calls close(), then releases Images, then
\* ends the command loop; after the loop one last Diagnostics line is put and
\* the worker terminates; no image is pushed once close() was called.
C26_CloseInOrder ==
    /\ last.op = "Close" =>
          (last.closes = 1 /\ images_closed /\ pc = "exiting")
    /\ images_closed => closeCalls >= 1
    /\ (last.op = "Finish" /\ closedBy = "Close") =>
          (last.diags = 1 /\ pc = "done")
    /\ last.wasClosed => last.pushed = 0

\* The loop of live_imaging() took "Snap single image" from Commands.
SnapTakenWhileStreaming ==
    last.op = "Tick" /\ last.deq = StrMsg("Snap single image")

\* C27: a "Snap single image" taken while the actor is streaming is not
\* discarded: besides the frame of the tick, the step acquires for the
\* command (a second value for Images, or a Fault), or keeps the command on
\* Commands for the dispatch loop.
C27_SnapValidWhileStreaming ==
    SnapTakenWhileStreaming =>
        \/ last.pushed + last.dropped >= 2
        \/ last.faults >= 1
        \/ last.cmdPut

\* C28: when the bounded wait of the caller's shutdown ends with the worker
\* still alive, the caller does not drop its reference to the worker.
C28_UnresponsiveWorkerKept == join_result = "timeout" => camera_handle = "Process"

\* C29: of the values MessagesPrinter takes from Diagnostics, every line with
\* "initialized" or "available" is put back on the queue, every other text
\* that is not a stop name is printed, and a stop name ends the printer.
C29_PrinterKeepsStartupLines ==
    LET p == messages_printer IN
    (p.act # "none" /\ p.msg \notin NonTextLines) =>
        IF p.msg \in PrinterStops THEN p.act = "stopped" /\ ~p.running
        ELSE IF StartupCritical(p.msg) THEN p.act = "putback" /\ p.running
        ELSE p.act = "printed" /\ p.running

\* C30: an error value taken from Faults by the exceptions checker ends the
\* checker and triggers the shutdown of the caller, once in the life of the
\* checker; a stop name ends the checker and triggers nothing; any other text
\* leaves the checker running and triggers nothing.
C30_WatcherQuitsOnceOnError ==
    LET c == exceptions_checker IN
    /\ c.quits <= 1
    /\ (join_result # "none") => c.quits = 1
    /\ c.act # "none" =>
         IF IsException(c.msg) THEN c.act = "quit" /\ ~c.running /\ c.quits = 1
         ELSE IF c.msg \in CheckerStops
         THEN c.act = "stopped" /\ ~c.running /\ c.quits = 0
         ELSE c.act = "printed" /\ c.running /\ c.quits = 0
\* The checker took an error of the worker and the shutdown it called has
\* sent the close command.
C30_ShutdownAfterError ==
    /\ exceptions_checker.act = "quit" /\ IsException(exceptions_checker.msg)
    /\ join_result \in {"sent", "finished", "timeout"}

\* The launch confirmations on a Diagnostics queue.
Launches(q) == Cardinality({i \in DOMAIN q : q[i] = Launched.m})

\* C31: a worker that enters its command loop has put the line "... camera
\* Process has been launched" in the step that brought it there, the line is
\* put by no other step and one at a time, the worker never starts again, and
\* no command is dequeued before the worker is in its loop.
C31_LaunchedOnceBeforeCommands ==
    [][/\ (pc \in {"created", "launching"} /\ pc' = "ready")
            => Launches(messages2caller') = Launches(messages2caller) + 1
       /\ Launches(messages2caller') > Launches(messages2caller)
            => /\ pc = "launching" /\ script = <<Launched>>
               /\ pc' # "launching"
               /\ Launches(messages2caller') = Launches(messages2caller) + 1
       /\ pc \notin {"created", "launching"} => pc' \notin {"created", "launching"}
       /\ last'.deq # NoMsg => pc \in {"ready", "streaming"}]_vars
\* The worker has just entered its loop and the launch line is the newest
\* Diagnostics line.
C31_LaunchedThenReady ==
    /\ pc = "ready" /\ last.op = "LaunchStep" /\ messages2caller # << >>
    /\ messages2caller[Len(messages2caller)] = Launched.m

\* C32: a step of a worker whose close() had been called before the step makes
\* no call of the device other than those of its own close() calls.
C32_NoUseAfterClose == closeCalls > last.closes => last.adapter <= last.closes

\* A command the loop of live_imaging() has no branch for.
Discarded(m) == m.k \in {"str", "tuple"} /\ ~IsStopLive(m)
\* The tick met no exception and, on the IDS camera, a capture that goes on.
PlainTick ==
    /\ last'.thrown = "none" /\ last'.raised = "none"
    /\ ~(impl = "wfs" /\ camera_type = "IDS" /\ camera_reference # "None"
         /\ status # "ok")

\* C33: a tick of the streaming loop takes at most one command; a command it
\* takes that is neither "Stop Live Stream" nor an error value is removed from
\* Commands and not put back, leaves the settings of the actor as they were,
\* closes nothing, writes no Diagnostics line and leaves the stream running.
C33_StreamDiscardsOtherCommands ==
    [][last'.op = "Tick" =>
         /\ Len(messages_queue') >= Len(messages_queue) - 1
         /\ Discarded(last'.deq) =>
              /\ messages_queue' = Tail(messages_queue)
              /\ ~last'.cmdPut /\ last'.closes = 0
              /\ UNCHANGED <<camera_type, initialized, exposure_time_ms,
                             max_width, max_height, image_width, image_height,
                             camera_reference, closedBy>>
              /\ PlainTick => (last'.diags = 0 /\ live_stream_flag' /\ pc' = "streaming")]_vars
\* A tick has taken a command that is not a string from Commands and the
\* stream goes on.
C33_TupleTakenByTick ==
    /\ last.op = "Tick" /\ last.deq.k = "tuple" /\ pc = "streaming"

\* A str or tuple that no branch of run() is written for.
Unmatched(m) ==
    \/ m.k = "str" /\ m.s \notin KnownStrings
    \/ m.k = "tuple" /\ m.s \notin KnownCommands
    \/ m.k = "tuple3"

\* C34: a step of the dispatch loop takes the oldest command and only that
\* one, a producer's put appends behind the commands already queued, and a
\* str or tuple that matches no known command is consumed with no change of
\* the actor's state and no output (the 5-minute status line of the PCO
\* camera, one device call and one line or a full Diagnostics queue, is not
\* output of the command).
C34_DispatchInOrder ==
    [][/\ (pc = "ready" /\ last'.deq # NoMsg)
            => (last'.deq = Head(messages_queue)
                /\ messages_queue' = Tail(messages_queue))
       /\ (last'.op = "none" /\ messages_queue' # messages_queue)
            => (Len(messages_queue') = Len(messages_queue) + 1
                /\ SubSeq(messages_queue', 1, Len(messages_queue)) = messages_queue)
       /\ (pc = "ready" /\ Unmatched(last'.deq))
            => /\ UNCHANGED <<camera_type, initialized, live_stream_flag,
                              exposure_time_ms, max_width, max_height,
                              image_width, image_height, camera_reference,
                              closeCalls, closedBy, images_closed>>
               /\ last'.faults = 0 /\ last'.pushed = 0
               /\ \/ last'.diags = last'.adapter /\ pc' = "ready"
                  \/ last'.chFull]_vars

\* C35: the put of a streaming tick that follows a test of full() answered
\* with False never meets a full Images queue, whatever the readers of Images
\* do between the test and the put: the frame is pushed.
C35_CheckedPutNeverFull == last.op = "Put" => (~last.imgFull /\ last.pushed = 1)
\* The put after the test has taken the last free place of Images.
C35_PutFilledImages ==
    last.op = "Put" /\ last.pushed = 1 /\ Len(images_queue) = ImagesCap

\* C36: the put-back of a line with "initialized" or "available" by
\* MessagesPrinter never meets a full Diagnostics queue: the printer is never
\* ended by queue.Full and the line it holds is never lost.
C36_PutBackAlwaysSucceeds == messages_printer.act # "lost"

\* C37: the launch confirmation of the Simulated camera is never taken by
\* MessagesPrinter while the caller is waiting for it, and the caller never
\* gives up a worker that is in its command loop.
C37_LaunchReachesCaller ==
    /\ wait_loop = "waiting" => messages_printer.held # Launched.m
    /\ wait_loop = "abandoned" => pc \notin {"ready", "streaming"}

\* C38: constructed with a camera type that is not recognized, the actor has
\* put exactly one line on Diagnostics and one error on Faults, nothing is
\* added to Faults afterwards, and the worker, once started, dequeues no
\* command, pushes nothing to Images and calls no adapter operation.
C38_UnknownTypeDoesNothing ==
    /\ camera_type = "Other" =>
         /\ messages2caller = <<"The specified type of the camera hasn't been implemented">>
         /\ exceptions_queue = <<"NotImplemented">>
         /\ images_queue = << >>
    /\ [][camera_type = "Other" =>
            /\ last'.deq = NoMsg /\ last'.pushed = 0 /\ ~last'.imgFull
            /\ last'.adapter = 0 /\ last'.closes = 0
            /\ Len(messages_queue') >= Len(messages_queue)
            /\ Len(exceptions_queue') <= Len(exceptions_queue)
            /\ images_queue' = << >>
            /\ pc' \in {"created", "launching", "exiting", "done", "crashed"}]_vars
\* The worker of an unrecognized camera type has ended with the sent commands
\* still on Commands and the error of the construction still on Faults.
C38_EndedWithoutDequeue ==
    /\ camera_type = "Other" /\ pc = "done"
    /\ Len(messages_queue) = CommandsCap
    /\ exceptions_queue = <<"NotImplemented">>

\* The implementation that is not the one of this run.
Twin == IF impl = "uscope" THEN "wfs" ELSE "uscope"

\* C39: configured as "Simulated", uscope_ctrl and wfs_reconstruction reach
\* Closed on exactly the same commands: a string taken in Ready closes the
\* camera of this run if and only if the close branch of the other
\* implementation accepts it too.
C39_ClosedOnSameCommands ==
    (camera_type = "Simulated" /\ last.op \in {"Close", "Other"} /\ last.deq.k = "str")
        => (last.op = "Close" <=> last.deq.s \in CloseNamesOf(Twin))

====
